---- MODULE Spec2Model ----
(***************************************************************************)
(* Model of src/armazenamento_local/script.js: a task list kept in two     *)
(* in-memory arrays (tarefasPendentes, tarefasFeitas), rendered into two   *)
(* DOM lists and saved to / restored from localStorage under the keys      *)
(* "pendentes" and "feitas".  Every event handler runs to completion, so   *)
(* each handler is one action.                                             *)
(*                                                                         *)
(* A task object is [id, titulo, feita].  titulo is a sequence of          *)
(* characters; id is an auxiliary serial number that stands for the rest   *)
(* of the object's content (responsavel, datas, prioridade, obs) and lets  *)
(* a property speak of "the same record" before and after a save/restore.  *)
(* JS indices are 0-based and are kept 0-based in the model.  The form's    *)
(* fields are inputs of the submit action; resetting the form and moving   *)
(* the focus change no state the model keeps.                              *)
(***************************************************************************)
EXTENDS Integers, Sequences, FiniteSets, TLC

\* ---- bounds -------------------------------------------------------------
MaxTarefas == 3          \* accepted submits in one run
MaxRegistros == 2        \* the same, in the runs that record every id's history

\* ---- inputs -------------------------------------------------------------
\* Values typed into the "titulo" field.
Titulos == { <<>>, <<" ">>, <<" ", "a", " ">> }

\* Indices handed to a direct call of concluirTarefa / excluirFeita.
Indices == (0 - (MaxTarefas + 1)) .. (MaxTarefas + 1)

\* Failure point of a run of setItem/removeItem calls: 0 = the medium
\* accepts both calls, 1 = the first call throws, 2 = the second throws.
Falhas == {0, 1, 2}

Min(a, b) == IF a < b THEN a ELSE b
Max(a, b) == IF a > b THEN a ELSE b

\* ---- String.prototype.trim ---------------------------------------------
RECURSIVE TrimStart(_)
TrimStart(s) ==
    IF s = <<>> THEN <<>>
    ELSE IF Head(s) = " " THEN TrimStart(Tail(s)) ELSE s

RECURSIVE TrimEnd(_)
TrimEnd(s) ==
    IF s = <<>> THEN <<>>
    ELSE IF s[Len(s)] = " " THEN TrimEnd(SubSeq(s, 1, Len(s) - 1)) ELSE s

Trim(s) == TrimEnd(TrimStart(s))

\* Mutant: the title is taken as typed, without trim().
criarObjetoTarefa_semTrim(valor, n) ==
    [id |-> n, titulo |-> valor, feita |-> FALSE]

\* criarObjetoTarefa: the object built from the form; feita starts false.
criarObjetoTarefa(valor, n) ==
    [id |-> n, titulo |-> Trim(valor), feita |-> FALSE]

\* ---- Array.prototype.splice(start, 1) ----------------------------------
\* A negative start counts from the end (clamped at 0), a start beyond the
\* end is clamped to the length; at most one element is removed.
SpliceStart(arr, start) ==
    IF start < 0 THEN Max(Len(arr) + start, 0) ELSE Min(start, Len(arr))

\* Mutant: the element handed back is always the first one.
SpliceRemoved_primeiro(arr, start) ==
    LET s == SpliceStart(arr, start)
    IN  IF s < Len(arr) THEN <<arr[1]>> ELSE <<>>

SpliceRemoved(arr, start) ==
    LET s == SpliceStart(arr, start)
    IN  IF s < Len(arr) THEN <<arr[s + 1]>> ELSE <<>>

\* Mutant: splice(start) without the count: everything from start goes.
SpliceRest_ateOFim(arr, start) ==
    LET s == SpliceStart(arr, start)
    IN  SubSeq(arr, 1, s)

SpliceRest(arr, start) ==
    LET s == SpliceStart(arr, start)
    IN  IF s < Len(arr)
        THEN SubSeq(arr, 1, s) \o SubSeq(arr, s + 2, Len(arr))
        ELSE arr

\* ---- JSON ---------------------------------------------------------------
\* A JSON text is a sequence of tokens [t, v].
Tok(t, v) == [t |-> t, v |-> v]
LBracket == Tok("[", 0)
RBracket == Tok("]", 0)
LBrace == Tok("{", 0)
RBrace == Tok("}", 0)

StringifyTarefa(tarefa) ==
    << LBrace,
       Tok("num", tarefa.id),
       Tok("str", tarefa.titulo),
       Tok("lit", IF tarefa.feita THEN "true" ELSE "false"),
       RBrace >>

RECURSIVE StringifyItems(_)
StringifyItems(arr) ==
    IF arr = <<>> THEN <<>>
    ELSE StringifyTarefa(Head(arr)) \o StringifyItems(Tail(arr))

\* JSON.stringify of an array of task objects.
JSONstringify(arr) == <<LBracket>> \o StringifyItems(arr) \o <<RBracket>>

\* Parsed JSON values.
JNull == [type |-> "null", items |-> <<>>]
JNumber == [type |-> "number", items |-> <<>>]
JArray(items) == [type |-> "array", items |-> items]

ObjectWellFormed(toks) ==
    /\ Len(toks) = 5
    /\ toks[1].t = "{"
    /\ toks[2].t = "num"
    /\ toks[3].t = "str"
    /\ toks[4].t = "lit"
    /\ toks[4].v \in {"true", "false"}
    /\ toks[5].t = "}"

\* Mutant: the feita flag is not read back.
ParseTarefa_semFeita(toks) ==
    [id |-> toks[2].v, titulo |-> toks[3].v, feita |-> FALSE]

ParseTarefa(toks) ==
    [id |-> toks[2].v, titulo |-> toks[3].v, feita |-> (toks[4].v = "true")]

RECURSIVE ItemsWellFormed(_)
ItemsWellFormed(toks) ==
    IF toks = <<>> THEN TRUE
    ELSE /\ Len(toks) >= 5
         /\ ObjectWellFormed(SubSeq(toks, 1, 5))
         /\ ItemsWellFormed(SubSeq(toks, 6, Len(toks)))

RECURSIVE ParseItems(_)
ParseItems(toks) ==
    IF toks = <<>> THEN <<>>
    ELSE <<ParseTarefa(SubSeq(toks, 1, 5))>> \o ParseItems(SubSeq(toks, 6, Len(toks)))

\* JSON.parse(item): item is what getItem returned.  A null argument is
\* converted to the text "null", which parses to null.  The result is
\* [ok, val]; ok = FALSE stands for the SyntaxError.
JSONparse(item) ==
    IF ~item.present THEN [ok |-> TRUE, val |-> JNull]
    ELSE LET toks == item.text
             n == Len(toks)
         IN  IF n = 1 /\ toks[1].t = "num" THEN [ok |-> TRUE, val |-> JNumber]
             ELSE IF n = 1 /\ toks[1].t = "lit" /\ toks[1].v = "null"
                  THEN [ok |-> TRUE, val |-> JNull]
             ELSE IF /\ n >= 2
                     /\ toks[1].t = "["
                     /\ toks[n].t = "]"
                     /\ ItemsWellFormed(SubSeq(toks, 2, n - 1))
                  THEN [ok |-> TRUE, val |-> JArray(ParseItems(SubSeq(toks, 2, n - 1)))]
             ELSE [ok |-> FALSE, val |-> JNull]

\* Mutant: the "|| []" default is missing.
OrEmptyArray_semPadrao(val) == val

\* value || [] : null is falsy, a number other than 0 and an array are not.
OrEmptyArray(val) == IF val.type = "null" THEN JArray(<<>>) ELSE val

\* ---- localStorage -------------------------------------------------------
\* One entry per key: present = FALSE is an absent key (getItem gives null).
Ausente == [present |-> FALSE, text |-> <<>>]
Entrada(text) == [present |-> TRUE, text |-> text]

\* Contents a previous session or another script may have left behind.
TextoInvalido == << LBracket, LBrace >>
TextoNumero == << Tok("num", 42) >>
EntradasIniciais == { Ausente, Entrada(TextoInvalido), Entrada(TextoNumero) }

\* ---- atualizarListas --------------------------------------------------
\* The rendered lists: one item per task, in array order, each carrying the
\* text shown and the index its button's onclick closed over.
RenderItem(tarefa, index, rotulo) ==
    [id |-> tarefa.id, titulo |-> tarefa.titulo, botao |-> rotulo, index |-> index]

\* innerHTML = "" on both lists.
LimparListas(view) == [listaPendentes |-> <<>>, listaFeitas |-> <<>>]

\* forEach ... appendChild(li): one item per task after what the list holds.
AppendItems(lista, arr, rotulo) ==
    lista \o [i \in 1..Len(arr) |-> RenderItem(arr[i], i - 1, rotulo)]

\* Mutant: the lists are not emptied before the items are appended.
atualizarListas_semLimpar(view, pend, feitas) ==
    [ listaPendentes |-> AppendItems(view.listaPendentes, pend, "Concluir"),
      listaFeitas |-> AppendItems(view.listaFeitas, feitas, "Excluir") ]

\* atualizarListas on the lists as they stand in view.
atualizarListas(view, pend, feitas) ==
    LET v0 == LimparListas(view)
    IN  [ listaPendentes |-> AppendItems(v0.listaPendentes, pend, "Concluir"),
          listaFeitas |-> AppendItems(v0.listaFeitas, feitas, "Excluir") ]

\* ---- concluirTarefa / excluirFeita -------------------------------------
\* Each yields the arrays and the DOM the call leaves behind.
\* Mutant: the moved task keeps feita = false.
concluirTarefa_semFeita(pend, feitas, view, i) ==
    LET removed == SpliceRemoved(pend, i)
        rest == SpliceRest(pend, i)
    IN  IF removed = <<>>
        THEN [pend |-> rest, feitas |-> feitas, view |-> view]
        ELSE LET novas == Append(feitas, removed[1])
             IN  [pend |-> rest, feitas |-> novas, view |-> atualizarListas(view, rest, novas)]

\* Mutant: the completed task is put at the front (unshift, not push).
concluirTarefa_noInicio(pend, feitas, view, i) ==
    LET removed == SpliceRemoved(pend, i)
        rest == SpliceRest(pend, i)
    IN  IF removed = <<>>
        THEN [pend |-> rest, feitas |-> feitas, view |-> view]
        ELSE LET tarefa == [removed[1] EXCEPT !.feita = TRUE]
                 novas == <<tarefa>> \o feitas
             IN  [pend |-> rest, feitas |-> novas, view |-> atualizarListas(view, rest, novas)]

concluirTarefa(pend, feitas, view, i) ==
    LET removed == SpliceRemoved(pend, i)
        rest == SpliceRest(pend, i)
    IN  IF removed = <<>>
        THEN [pend |-> rest, feitas |-> feitas, view |-> view]
        ELSE LET tarefa == [removed[1] EXCEPT !.feita = TRUE]
                 novas == Append(feitas, tarefa)
             IN  [pend |-> rest, feitas |-> novas, view |-> atualizarListas(view, rest, novas)]

excluirFeita(pend, feitas, view, i) ==
    LET rest == SpliceRest(feitas, i)
    IN  [pend |-> pend, feitas |-> rest, view |-> atualizarListas(view, pend, rest)]

\* Mutant: only the "pendentes" key is written.
gravarDados_soPendentes(store, pend, feitas, falha) ==
    IF falha = 1
    THEN [store |-> store, erro |-> "registrado", gravacao |-> "falhou1"]
    ELSE LET s1 == [store EXCEPT !.pendentes = Entrada(JSONstringify(pend))]
         IN  IF falha = 2
             THEN [store |-> s1, erro |-> "registrado", gravacao |-> "falhou2"]
             ELSE [store |-> s1, erro |-> "nenhum", gravacao |-> "ok"]

\* Mutant: "feitas" is written first, "pendentes" second.
gravarDados_feitasPrimeiro(store, pend, feitas, falha) ==
    IF falha = 1
    THEN [store |-> store, erro |-> "registrado", gravacao |-> "falhou1"]
    ELSE LET s1 == [store EXCEPT !.feitas = Entrada(JSONstringify(feitas))]
         IN  IF falha = 2
             THEN [store |-> s1, erro |-> "registrado", gravacao |-> "falhou2"]
             ELSE [store |-> [s1 EXCEPT !.pendentes = Entrada(JSONstringify(pend))],
                   erro |-> "nenhum", gravacao |-> "ok"]

\* Mutant: no try/catch around the two setItem calls.
gravarDados_semTry(store, pend, feitas, falha) ==
    IF falha = 1
    THEN [store |-> store, erro |-> "propagado", gravacao |-> "falhou1"]
    ELSE LET s1 == [store EXCEPT !.pendentes = Entrada(JSONstringify(pend))]
         IN  IF falha = 2
             THEN [store |-> s1, erro |-> "propagado", gravacao |-> "falhou2"]
             ELSE [store |-> [s1 EXCEPT !.feitas = Entrada(JSONstringify(feitas))],
                   erro |-> "nenhum", gravacao |-> "ok"]

\* ---- gravarDados --------------------------------------------------------
\* falha says which setItem call, if any, the medium rejects.  The
\* exception is caught and logged inside the function.
gravarDados(store, pend, feitas, falha) ==
    IF falha = 1
    THEN [store |-> store, erro |-> "registrado", gravacao |-> "falhou1"]
    ELSE LET s1 == [store EXCEPT !.pendentes = Entrada(JSONstringify(pend))]
         IN  IF falha = 2
             THEN [store |-> s1, erro |-> "registrado", gravacao |-> "falhou2"]
             ELSE [store |-> [s1 EXCEPT !.feitas = Entrada(JSONstringify(feitas))],
                   erro |-> "nenhum", gravacao |-> "ok"]

\* Mutant: the arrays are emptied before the entries are parsed.
recuperarDados_limpaAntes(store, pend, feitas, view) ==
    LET p1 == JSONparse(store.pendentes)
        p2 == JSONparse(store.feitas)
        pendentesSalvos == OrEmptyArray(p1.val)
        feitasSalvas == OrEmptyArray(p2.val)
    IN  IF ~p1.ok \/ ~p2.ok
        THEN [pend |-> <<>>, feitas |-> <<>>, view |-> view, erro |-> "registrado"]
        ELSE IF pendentesSalvos.type # "array"
        THEN [pend |-> <<>>, feitas |-> <<>>, view |-> view, erro |-> "registrado"]
        ELSE IF feitasSalvas.type # "array"
        THEN [pend |-> pendentesSalvos.items, feitas |-> <<>>, view |-> view,
              erro |-> "registrado"]
        ELSE [pend |-> pendentesSalvos.items, feitas |-> feitasSalvas.items,
              view |-> atualizarListas(view, pendentesSalvos.items, feitasSalvas.items),
              erro |-> "nenhum"]

\* Mutant: the arrays are not emptied before the stored records are pushed.
recuperarDados_mescla(store, pend, feitas, view) ==
    LET p1 == JSONparse(store.pendentes)
        p2 == JSONparse(store.feitas)
        pendentesSalvos == OrEmptyArray(p1.val)
        feitasSalvas == OrEmptyArray(p2.val)
    IN  IF ~p1.ok \/ ~p2.ok
        THEN [pend |-> pend, feitas |-> feitas, view |-> view, erro |-> "registrado"]
        ELSE IF pendentesSalvos.type # "array"
        THEN [pend |-> pend, feitas |-> feitas, view |-> view, erro |-> "registrado"]
        ELSE IF feitasSalvas.type # "array"
        THEN [pend |-> pend \o pendentesSalvos.items, feitas |-> feitas, view |-> view,
              erro |-> "registrado"]
        ELSE [pend |-> pend \o pendentesSalvos.items,
              feitas |-> feitas \o feitasSalvas.items,
              view |-> atualizarListas(view, pend \o pendentesSalvos.items,
                                       feitas \o feitasSalvas.items),
              erro |-> "nenhum"]

\* Mutant: "feitas" is parsed only after the arrays have been emptied.
recuperarDados_parseDepois(store, pend, feitas, view) ==
    LET p1 == JSONparse(store.pendentes)
        p2 == JSONparse(store.feitas)
        pendentesSalvos == OrEmptyArray(p1.val)
        feitasSalvas == OrEmptyArray(p2.val)
    IN  IF ~p1.ok
        THEN [pend |-> pend, feitas |-> feitas, view |-> view, erro |-> "registrado"]
        ELSE IF ~p2.ok
        THEN [pend |-> <<>>, feitas |-> <<>>, view |-> view, erro |-> "registrado"]
        ELSE IF pendentesSalvos.type # "array"
        THEN [pend |-> <<>>, feitas |-> <<>>, view |-> view, erro |-> "registrado"]
        ELSE IF feitasSalvas.type # "array"
        THEN [pend |-> pendentesSalvos.items, feitas |-> <<>>, view |-> view,
              erro |-> "registrado"]
        ELSE [pend |-> pendentesSalvos.items, feitas |-> feitasSalvas.items,
              view |-> atualizarListas(view, pendentesSalvos.items, feitasSalvas.items),
              erro |-> "nenhum"]

\* ---- recuperarDados -----------------------------------------------------
\* Both entries are parsed first; then both arrays are emptied and refilled
\* with forEach, which throws a TypeError on a value that is not an array.
\* Whatever is thrown is caught and logged; atualizarListas runs only when
\* nothing was thrown.
recuperarDados(store, pend, feitas, view) ==
    LET p1 == JSONparse(store.pendentes)
        p2 == JSONparse(store.feitas)
        pendentesSalvos == OrEmptyArray(p1.val)
        feitasSalvas == OrEmptyArray(p2.val)
    IN  IF ~p1.ok \/ ~p2.ok
        THEN [pend |-> pend, feitas |-> feitas, view |-> view, erro |-> "registrado"]
        ELSE IF pendentesSalvos.type # "array"
        THEN [pend |-> <<>>, feitas |-> <<>>, view |-> view, erro |-> "registrado"]
        ELSE IF feitasSalvas.type # "array"
        THEN [pend |-> pendentesSalvos.items, feitas |-> <<>>, view |-> view,
              erro |-> "registrado"]
        ELSE [pend |-> pendentesSalvos.items, feitas |-> feitasSalvas.items,
              view |-> atualizarListas(view, pendentesSalvos.items, feitasSalvas.items),
              erro |-> "nenhum"]

\* Mutant: only the medium is cleared; the arrays and the lists stay.
limparStorage_soStorage(store, pend, feitas, view, falha) ==
    LET s0 == IF falha = 1 THEN store ELSE [store EXCEPT !.pendentes = Ausente]
        s1 == IF falha = 0 THEN [s0 EXCEPT !.feitas = Ausente] ELSE s0
    IN  [store |-> s1, pend |-> pend, feitas |-> feitas, view |-> view,
         erro |-> IF falha = 0 THEN "nenhum" ELSE "registrado"]

\* Mutant: the arrays are emptied but the lists are not rendered again.
limparStorage_semRender(store, pend, feitas, view, falha) ==
    LET s0 == IF falha = 1 THEN store ELSE [store EXCEPT !.pendentes = Ausente]
        s1 == IF falha = 0 THEN [s0 EXCEPT !.feitas = Ausente] ELSE s0
    IN  [store |-> s1, pend |-> <<>>, feitas |-> <<>>, view |-> view,
         erro |-> IF falha = 0 THEN "nenhum" ELSE "registrado"]

\* ---- limparStorage ------------------------------------------------------
\* falha says which removeItem call, if any, throws (caught and logged);
\* the arrays are emptied and the lists rendered in every case.
limparStorage(store, pend, feitas, view, falha) ==
    LET s0 == IF falha = 1 THEN store ELSE [store EXCEPT !.pendentes = Ausente]
        s1 == IF falha = 0 THEN [s0 EXCEPT !.feitas = Ausente] ELSE s0
    IN  [store |-> s1, pend |-> <<>>, feitas |-> <<>>,
         view |-> atualizarListas(view, <<>>, <<>>),
         erro |-> IF falha = 0 THEN "nenhum" ELSE "registrado"]

\* ---- taskForm "submit" -------------------------------------------------
\* The handler up to the save: a title that trims to the empty string puts
\* the focus back on the field and returns; otherwise the object is pushed
\* and the lists are rendered.
submitHandler(pend, feitas, view, valor, n) ==
    LET tarefa == criarObjetoTarefa(valor, n)
    IN  IF tarefa.titulo = <<>>
        THEN [aceito |-> FALSE, pend |-> pend, view |-> view]
        ELSE [aceito |-> TRUE, pend |-> Append(pend, tarefa),
              view |-> atualizarListas(view, Append(pend, tarefa), feitas)]

\* ---- state --------------------------------------------------------------
VARIABLES
    tarefasPendentes,   \* array of pending task objects
    tarefasFeitas,      \* array of completed task objects
    localStorage,       \* [pendentes, feitas] -> entry
    dom,                \* [listaPendentes, listaFeitas] as last rendered
    carregado,          \* the page is past DOMContentLoaded
    proximoId,          \* serial number of the next task object
    erro,               \* outcome of the last handler: "nenhum" /
                        \* "registrado" (console.error) / "propagado"
    evento,             \* history: the last handler or call that ran
    indice,             \* history: the index it was given (0 if none)
    valorTitulo,        \* history: the title field at the last submit
    gravacao,           \* history: gravarDados in the last handler:
                        \* "nenhuma" / "ok" / "falhou1" / "falhou2"
    historico,          \* whether the three variables below are recorded
    concluidas,         \* history: ids that have been in tarefasFeitas
    excluidas,          \* history: ids removed by excluirFeita
    rejeitou            \* history: some setItem has been rejected

vars == << tarefasPendentes, tarefasFeitas, localStorage, dom, carregado,
           proximoId, erro, evento, indice, valorTitulo, gravacao, historico,
           concluidas, excluidas, rejeitou >>

Ids(arr) == { arr[i].id : i \in 1..Len(arr) }

\* Accepted submits in one run.
Limite == IF historico THEN MaxRegistros ELSE MaxTarefas

\* The two lists of the page before anything is rendered.
ListasVazias == [listaPendentes |-> <<>>, listaFeitas |-> <<>>]

\* The script has run: empty arrays, whatever the medium already holds.
InitCom(c, h) ==
    /\ tarefasPendentes = <<>>
    /\ tarefasFeitas = <<>>
    /\ localStorage \in [pendentes : EntradasIniciais, feitas : EntradasIniciais]
    /\ dom = ListasVazias
    /\ carregado = c
    /\ proximoId = 1
    /\ erro = "nenhum"
    /\ evento = "inicio"
    /\ indice = 0
    /\ valorTitulo = <<>>
    /\ gravacao = "nenhuma"
    /\ historico = h
    /\ concluidas = {}
    /\ excluidas = {}
    /\ rejeitou = FALSE

Init == InitCom(FALSE, FALSE)

\* Common tail of every handler: the new arrays and the history variables.
Registrar(ev, i, valor, pend, feitas, removidas, g) ==
    /\ tarefasPendentes' = pend
    /\ tarefasFeitas' = feitas
    /\ evento' = ev
    /\ indice' = i
    /\ valorTitulo' = valor
    /\ gravacao' = g
    /\ historico' = historico
    /\ concluidas' = IF historico THEN concluidas \cup Ids(feitas) ELSE {}
    /\ excluidas' = IF historico THEN excluidas \cup removidas ELSE {}
    /\ rejeitou' = (historico /\ (rejeitou \/ g \in {"falhou1", "falhou2"}))

\* document "DOMContentLoaded": recuperarDados().
DOMContentLoaded ==
    /\ ~carregado
    /\ carregado' = TRUE
    /\ LET r == recuperarDados(localStorage, tarefasPendentes, tarefasFeitas, dom)
       IN  /\ dom' = r.view
           /\ erro' = r.erro
           /\ Registrar("DOMContentLoaded", 0, <<>>, r.pend, r.feitas, {}, "nenhuma")
    /\ UNCHANGED << localStorage, proximoId >>

\* taskForm "submit": submitHandler, then gravarDados if it did not return.
Submit(valor, falha) ==
    /\ carregado
    /\ LET h == submitHandler(tarefasPendentes, tarefasFeitas, dom, valor, proximoId)
           g == IF h.aceito
                THEN gravarDados(localStorage, h.pend, tarefasFeitas, falha)
                ELSE [store |-> localStorage, erro |-> "nenhum", gravacao |-> "nenhuma"]
       IN  /\ h.aceito => proximoId <= Limite
           /\ ~h.aceito => falha = 0
           /\ dom' = h.view
           /\ localStorage' = g.store
           /\ erro' = g.erro
           /\ proximoId' = IF h.aceito THEN proximoId + 1 ELSE proximoId
           /\ Registrar("submit", 0, valor, h.pend, tarefasFeitas, {}, g.gravacao)
    /\ UNCHANGED carregado

\* btnFeita.onclick of the k-th rendered pending item.
BtnFeitaOnclick(k, falha) ==
    /\ carregado
    /\ k \in 1..Len(dom.listaPendentes)
    /\ LET i == dom.listaPendentes[k].index
           m == concluirTarefa(tarefasPendentes, tarefasFeitas, dom, i)
           g == gravarDados(localStorage, m.pend, m.feitas, falha)
       IN  /\ dom' = m.view
           /\ localStorage' = g.store
           /\ erro' = g.erro
           /\ Registrar("concluir", i, <<>>, m.pend, m.feitas, {}, g.gravacao)
    /\ UNCHANGED << carregado, proximoId >>

\* Mutant: the deletion is not followed by gravarDados.
BtnExcluirOnclick_semGravar(k, falha) ==
    /\ carregado
    /\ falha = 0
    /\ k \in 1..Len(dom.listaFeitas)
    /\ LET i == dom.listaFeitas[k].index
           m == excluirFeita(tarefasPendentes, tarefasFeitas, dom, i)
       IN  /\ dom' = m.view
           /\ erro' = "nenhum"
           /\ Registrar("excluir", i, <<>>, m.pend, m.feitas,
                        Ids(tarefasFeitas) \ Ids(m.feitas), "nenhuma")
    /\ UNCHANGED << localStorage, carregado, proximoId >>

\* btnExcluir.onclick of the k-th rendered completed item.
BtnExcluirOnclick(k, falha) ==
    /\ carregado
    /\ k \in 1..Len(dom.listaFeitas)
    /\ LET i == dom.listaFeitas[k].index
           m == excluirFeita(tarefasPendentes, tarefasFeitas, dom, i)
           g == gravarDados(localStorage, m.pend, m.feitas, falha)
       IN  /\ dom' = m.view
           /\ localStorage' = g.store
           /\ erro' = g.erro
           /\ Registrar("excluir", i, <<>>, m.pend, m.feitas,
                        Ids(tarefasFeitas) \ Ids(m.feitas), g.gravacao)
    /\ UNCHANGED << carregado, proximoId >>

\* gravarBtn.onclick
GravarBtnOnclick(falha) ==
    /\ carregado
    /\ LET g == gravarDados(localStorage, tarefasPendentes, tarefasFeitas, falha)
       IN  /\ localStorage' = g.store
           /\ erro' = g.erro
           /\ Registrar("gravarBtn", 0, <<>>, tarefasPendentes, tarefasFeitas, {},
                        g.gravacao)
    /\ UNCHANGED << dom, carregado, proximoId >>

\* recuperarBtn.onclick
RecuperarBtnOnclick ==
    /\ carregado
    /\ LET r == recuperarDados(localStorage, tarefasPendentes, tarefasFeitas, dom)
       IN  /\ dom' = r.view
           /\ erro' = r.erro
           /\ Registrar("recuperarBtn", 0, <<>>, r.pend, r.feitas, {}, "nenhuma")
    /\ UNCHANGED << localStorage, carregado, proximoId >>

\* limparBtn.onclick
LimparBtnOnclick(falha) ==
    /\ carregado
    /\ LET c == limparStorage(localStorage, tarefasPendentes, tarefasFeitas, dom, falha)
       IN  /\ localStorage' = c.store
           /\ dom' = c.view
           /\ erro' = c.erro
           /\ Registrar("limparBtn", 0, <<>>, c.pend, c.feitas, {}, "nenhuma")
    /\ UNCHANGED << carregado, proximoId >>

Next ==
    \/ DOMContentLoaded
    \/ \E valor \in Titulos, falha \in Falhas : Submit(valor, falha)
    \/ \E k \in 1..MaxTarefas, falha \in Falhas : BtnFeitaOnclick(k, falha)
    \/ \E k \in 1..MaxTarefas, falha \in Falhas : BtnExcluirOnclick(k, falha)
    \/ \E falha \in Falhas : GravarBtnOnclick(falha)
    \/ RecuperarBtnOnclick
    \/ \E falha \in Falhas : LimparBtnOnclick(falha)

\* The page as the user drives it.
Spec == Init /\ [][Next]_vars

\* The same, recording the history of every id.
InitHistorico == InitCom(FALSE, TRUE)
SpecHistorico == InitHistorico /\ [][Next]_vars

\* The page on a medium that holds nothing at first and that only this
\* page writes.
InitProprio == Init /\ localStorage = [pendentes |-> Ausente, feitas |-> Ausente]
SpecProprio == InitProprio /\ [][Next]_vars

\* ---- the functions called directly --------------------------------------
\* concluirTarefa(i) and excluirFeita(i) with any integer, as a caller other
\* than the rendered buttons may pass it; neither saves.
CallConcluirTarefa(i) ==
    /\ LET m == concluirTarefa(tarefasPendentes, tarefasFeitas, dom, i)
       IN  /\ dom' = m.view
           /\ Registrar("concluirTarefa", i, <<>>, m.pend, m.feitas, {}, "nenhuma")
    /\ erro' = "nenhum"
    /\ UNCHANGED << localStorage, carregado, proximoId >>

CallExcluirFeita(i) ==
    /\ LET m == excluirFeita(tarefasPendentes, tarefasFeitas, dom, i)
       IN  /\ dom' = m.view
           /\ Registrar("excluirFeita", i, <<>>, m.pend, m.feitas,
                        Ids(tarefasFeitas) \ Ids(m.feitas), "nenhuma")
    /\ erro' = "nenhum"
    /\ UNCHANGED << localStorage, carregado, proximoId >>

\* atualizarListas() called with nothing else done; evento tells a call that
\* directly follows another call of it from a first one.
CallAtualizarListas ==
    /\ dom' = atualizarListas(dom, tarefasPendentes, tarefasFeitas)
    /\ Registrar(IF evento \in {"atualizarListas", "atualizarListasDeNovo"}
                 THEN "atualizarListasDeNovo" ELSE "atualizarListas",
                 0, <<>>, tarefasPendentes, tarefasFeitas, {}, "nenhuma")
    /\ erro' = "nenhum"
    /\ UNCHANGED << localStorage, carregado, proximoId >>

InitStore == InitCom(TRUE, FALSE)

NextStore ==
    \/ \E valor \in Titulos, falha \in Falhas : Submit(valor, falha)
    \/ \E i \in Indices : CallConcluirTarefa(i)
    \/ \E i \in Indices : CallExcluirFeita(i)

SpecStore == InitStore /\ [][NextStore]_vars

\* The same calls, and atualizarListas called on its own.
NextRender ==
    \/ \E valor \in Titulos, falha \in Falhas : Submit(valor, falha)
    \/ \E i \in Indices : CallConcluirTarefa(i)
    \/ \E i \in Indices : CallExcluirFeita(i)
    \/ CallAtualizarListas

\* Nothing stored yet under either key.
ArmazenamentoVazio == [pendentes |-> Ausente, feitas |-> Ausente]

InitRender == InitCom(TRUE, FALSE) /\ localStorage = ArmazenamentoVazio

SpecRender == InitRender /\ [][NextRender]_vars

\* ======================================================================
\* Properties
\* ======================================================================

\* The item holds the serialized form of exactly the array arr.
Persistido(item, arr) ==
    /\ item.present
    /\ JSONparse(item) = [ok |-> TRUE, val |-> JArray(arr)]

\* The item holds text that JSON.parse rejects.
Malformado(item) == item.present /\ ~JSONparse(item).ok

\* The title field is empty or holds only spaces.
EhBranco(valor) == \A j \in 1..Len(valor) : valor[j] = " "

\* arr without its element at 0-based position i, for 0 <= i < Len(arr).
SemPosicao(arr, i) == SubSeq(arr, 1, i) \o SubSeq(arr, i + 2, Len(arr))

\* The lists that show exactly the two arrays: the j-th item shows the j-th
\* record and its button carries the 0-based index j - 1.
Projecao(pend, feitas) ==
    [ listaPendentes |->
        [j \in 1..Len(pend) |->
            [id |-> pend[j].id, titulo |-> pend[j].titulo,
             botao |-> "Concluir", index |-> j - 1]],
      listaFeitas |->
        [j \in 1..Len(feitas) |->
            [id |-> feitas[j].id, titulo |-> feitas[j].titulo,
             botao |-> "Excluir", index |-> j - 1]] ]

FalhasDeGravacao == {"falhou1", "falhou2"}

\* C1: after any sequence of accepted submits and concluirTarefa /
\* excluirFeita calls, no record is in both arrays (nor twice in one), every
\* record in tarefasPendentes has feita = false and every record in
\* tarefasFeitas has feita = true.
C1_MembroUnicoEFlag ==
    /\ Ids(tarefasPendentes) \cap Ids(tarefasFeitas) = {}
    /\ Cardinality(Ids(tarefasPendentes)) = Len(tarefasPendentes)
    /\ Cardinality(Ids(tarefasFeitas)) = Len(tarefasFeitas)
    /\ \A j \in 1..Len(tarefasPendentes) : tarefasPendentes[j].feita = FALSE
    /\ \A j \in 1..Len(tarefasFeitas) : tarefasFeitas[j].feita = TRUE

C1_Witness ==
    /\ evento = "excluirFeita"
    /\ Len(tarefasPendentes) >= 1
    /\ Len(tarefasFeitas) >= 1
    /\ proximoId > MaxTarefas

\* C2: when the submit, Complete or Delete handler has finished and its
\* gravarDados was accepted, the "pendentes" entry holds exactly
\* tarefasPendentes and the "feitas" entry holds exactly tarefasFeitas.
C2_PersistidoIgualMemoria ==
    (evento \in {"submit", "concluir", "excluir"} /\ gravacao = "ok")
        => /\ Persistido(localStorage.pendentes, tarefasPendentes)
           /\ Persistido(localStorage.feitas, tarefasFeitas)

\* Completing the only pending task: "pendentes" holds [], "feitas" the task.
C2_Witness ==
    /\ evento = "concluir"
    /\ gravacao = "ok"
    /\ tarefasPendentes = <<>>
    /\ Len(tarefasFeitas) = 1
    /\ localStorage.pendentes = Entrada(JSONstringify(<<>>))
    /\ localStorage.feitas = Entrada(JSONstringify(tarefasFeitas))

\* C3: a handler that ended in a successful gravarDados, followed at once
\* by recuperarDados, leaves both arrays with the same records in the same
\* order with the same feita values.
C3_RoundTrip ==
    [][ (gravacao = "ok" /\ evento' = "recuperarBtn")
            => /\ tarefasPendentes' = tarefasPendentes
               /\ tarefasFeitas' = tarefasFeitas
               /\ erro' = "nenhum" ]_vars

C3_Witness ==
    /\ evento = "recuperarBtn"
    /\ erro = "nenhum"
    /\ Len(tarefasPendentes) >= 1
    /\ Len(tarefasFeitas) >= 2
    /\ Persistido(localStorage.pendentes, tarefasPendentes)
    /\ Persistido(localStorage.feitas, tarefasFeitas)

\* C4 (as claimed): concluirTarefa(i) or excluirFeita(i) with i < 0 or
\* i >= the length of the targeted array leaves both arrays unchanged.
C4_ForaDoIntervaloSemEfeito ==
    [][ /\ (evento' = "concluirTarefa"
              /\ (indice' < 0 \/ indice' >= Len(tarefasPendentes)))
            => UNCHANGED << tarefasPendentes, tarefasFeitas >>
        /\ (evento' = "excluirFeita"
              /\ (indice' < 0 \/ indice' >= Len(tarefasFeitas)))
            => UNCHANGED << tarefasPendentes, tarefasFeitas >> ]_vars

\* C5: a submit whose title is empty or only spaces leaves the arrays, the
\* rendered lists and both persisted entries as they were.
C5_SubmitVazioSemEfeito ==
    [][ (evento' = "submit" /\ EhBranco(valorTitulo'))
            => /\ UNCHANGED << tarefasPendentes, tarefasFeitas, dom, localStorage >>
               /\ gravacao' = "nenhuma" ]_vars

C5_Witness ==
    /\ evento = "submit"
    /\ valorTitulo = <<" ">>
    /\ gravacao = "nenhuma"
    /\ Len(tarefasPendentes) >= 1
    /\ Len(tarefasFeitas) >= 1

Recuperou == evento' \in {"DOMContentLoaded", "recuperarBtn"}

\* C6 (as claimed): when either entry holds text that does not parse,
\* recuperarDados raises nothing and leaves both arrays empty, whatever
\* they held before.
C6_MalformadoEsvazia ==
    [][ (Recuperou /\ (Malformado(localStorage.pendentes) \/ Malformado(localStorage.feitas)))
            => /\ erro' # "propagado"
               /\ tarefasPendentes' = <<>>
               /\ tarefasFeitas' = <<>> ]_vars

\* C6 (amended): when either entry holds text that does not parse,
\* recuperarDados raises nothing (the error is logged) and leaves both
\* arrays holding what they held before the call.
C6_MalformadoPreserva ==
    [][ (Recuperou /\ (Malformado(localStorage.pendentes) \/ Malformado(localStorage.feitas)))
            => /\ erro' = "registrado"
               /\ tarefasPendentes' = tarefasPendentes
               /\ tarefasFeitas' = tarefasFeitas ]_vars

C6_Witness ==
    /\ evento = "recuperarBtn"
    /\ erro = "registrado"
    /\ Malformado(localStorage.pendentes) \/ Malformado(localStorage.feitas)
    /\ Len(tarefasPendentes) >= 1
    /\ Len(tarefasFeitas) >= 1

\* C7: when a setItem of gravarDados is rejected in the submit, Complete or
\* Delete handler, the error is logged and does not leave the handler, the
\* handler's change to the arrays is in place and the lists show the changed
\* arrays.  (A Complete click whose index addresses no record changes
\* nothing and renders nothing.)
C7_GravacaoRejeitadaNaoBloqueia ==
    [][ (gravacao' \in FalhasDeGravacao /\ evento' \in {"submit", "concluir", "excluir"})
            => /\ erro' = "registrado"
               /\ evento' = "submit" =>
                    /\ tarefasPendentes' =
                         Append(tarefasPendentes,
                                [id |-> proximoId, titulo |-> Trim(valorTitulo'),
                                 feita |-> FALSE])
                    /\ tarefasFeitas' = tarefasFeitas
                    /\ dom' = Projecao(tarefasPendentes', tarefasFeitas')
               /\ (evento' = "concluir" /\ indice' < Len(tarefasPendentes)) =>
                    /\ tarefasPendentes' = SemPosicao(tarefasPendentes, indice')
                    /\ tarefasFeitas' =
                         Append(tarefasFeitas,
                                [tarefasPendentes[indice' + 1] EXCEPT !.feita = TRUE])
                    /\ dom' = Projecao(tarefasPendentes', tarefasFeitas')
               /\ (evento' = "concluir" /\ indice' >= Len(tarefasPendentes)) =>
                    UNCHANGED << tarefasPendentes, tarefasFeitas >>
               /\ evento' = "excluir" =>
                    /\ tarefasPendentes' = tarefasPendentes
                    /\ tarefasFeitas' = IF indice' < Len(tarefasFeitas)
                                        THEN SemPosicao(tarefasFeitas, indice')
                                        ELSE tarefasFeitas
                    /\ dom' = Projecao(tarefasPendentes', tarefasFeitas') ]_vars

C7_Witness ==
    /\ evento = "concluir"
    /\ gravacao = "falhou2"
    /\ erro = "registrado"
    /\ Len(tarefasFeitas) >= 1
    /\ dom = Projecao(tarefasPendentes, tarefasFeitas)
    /\ ~Persistido(localStorage.feitas, tarefasFeitas)

\* The item holds text that parses to an array.
EhArray(item) == item.present /\ JSONparse(item).ok /\ JSONparse(item).val.type = "array"

\* C8: in recuperarDados a missing key is an empty sequence for its side and
\* no error: with one key missing and the other holding a serialized
\* sequence, the missing side's array becomes empty and the other array is
\* loaded from its entry; with both missing, both arrays are empty, the
\* lists are rendered empty and nothing is raised or logged.
C8_ChaveAusente ==
    [][ Recuperou =>
          /\ (~localStorage.pendentes.present /\ EhArray(localStorage.feitas)) =>
                /\ tarefasPendentes' = <<>>
                /\ Persistido(localStorage.feitas, tarefasFeitas')
                /\ erro' = "nenhum"
          /\ (~localStorage.feitas.present /\ EhArray(localStorage.pendentes)) =>
                /\ tarefasFeitas' = <<>>
                /\ Persistido(localStorage.pendentes, tarefasPendentes')
                /\ erro' = "nenhum"
          /\ (~localStorage.pendentes.present /\ ~localStorage.feitas.present) =>
                /\ tarefasPendentes' = <<>>
                /\ tarefasFeitas' = <<>>
                /\ dom' = [listaPendentes |-> <<>>, listaFeitas |-> <<>>]
                /\ erro' = "nenhum" ]_vars

C8_Witness ==
    /\ evento = "recuperarBtn"
    /\ ~localStorage.pendentes.present
    /\ EhArray(localStorage.feitas)
    /\ tarefasPendentes = <<>>
    /\ Len(tarefasFeitas) >= 1
    /\ erro = "nenhum"

\* C9 (as claimed): limparStorage leaves the in-memory arrays as they were.
C9_LimparNaoTocaMemoria ==
    [][ evento' = "limparBtn"
            => UNCHANGED << tarefasPendentes, tarefasFeitas >> ]_vars

\* C9 (amended): limparStorage removes both persisted keys (when no
\* removeItem throws) and also empties both in-memory arrays.
C9_LimparEsvaziaMemoria ==
    [][ evento' = "limparBtn"
            => /\ erro' = "nenhum" =>
                    /\ ~localStorage'.pendentes.present
                    /\ ~localStorage'.feitas.present
               /\ tarefasPendentes' = <<>>
               /\ tarefasFeitas' = <<>> ]_vars

C9_Witness ==
    /\ evento = "limparBtn"
    /\ erro = "nenhum"
    /\ ~localStorage.pendentes.present
    /\ ~localStorage.feitas.present
    /\ tarefasPendentes = <<>>
    /\ tarefasFeitas = <<>>
    /\ proximoId > MaxTarefas

\* No record that has been completed is pending, and no deleted record is
\* in either array.
Irreversivel ==
    /\ concluidas \cap Ids(tarefasPendentes) = {}
    /\ excluidas \cap (Ids(tarefasPendentes) \cup Ids(tarefasFeitas)) = {}

MenosUmOuIgual(arr, arr2) ==
    \/ arr2 = arr
    \/ \E k \in 0..(Len(arr) - 1) : arr2 = SemPosicao(arr, k)

\* The ids of arr grow from front to back (ids are given in creation order).
EmOrdemDeCriacao(arr) ==
    \A j, k \in 1..Len(arr) : j < k => arr[j].id < arr[k].id

\* C11: under submits and concluirTarefa / excluirFeita calls the pending
\* array lists its records in creation order; every accepted submit appends
\* the new record, feita = false, at the end of it; every completion
\* appends at the end of the completed array and leaves the earlier
\* completed records in place, and a deletion keeps the others in order, so
\* the completed array lists its records in completion order.
C11_OrdemDeInsercao ==
    [][ /\ EmOrdemDeCriacao(tarefasPendentes')
        /\ (evento' = "submit" /\ ~EhBranco(valorTitulo')) =>
              /\ tarefasPendentes' =
                   Append(tarefasPendentes,
                          [id |-> proximoId, titulo |-> Trim(valorTitulo'),
                           feita |-> FALSE])
              /\ tarefasFeitas' = tarefasFeitas
        /\ evento' = "concluirTarefa" =>
              /\ MenosUmOuIgual(tarefasPendentes, tarefasPendentes')
              /\ \/ UNCHANGED << tarefasPendentes, tarefasFeitas >>
                 \/ /\ Len(tarefasFeitas') = Len(tarefasFeitas) + 1
                    /\ SubSeq(tarefasFeitas', 1, Len(tarefasFeitas)) = tarefasFeitas
                    /\ tarefasFeitas'[Len(tarefasFeitas')].id
                         \in Ids(tarefasPendentes) \ Ids(tarefasPendentes')
        /\ evento' = "excluirFeita" =>
              /\ tarefasPendentes' = tarefasPendentes
              /\ MenosUmOuIgual(tarefasFeitas, tarefasFeitas') ]_vars

\* Completed in an order other than the order of creation.
C11_Witness ==
    /\ evento = "concluirTarefa"
    /\ Len(tarefasFeitas) = 2
    /\ tarefasFeitas[1].id > tarefasFeitas[2].id
    /\ Len(tarefasPendentes) = 1

\* C12: atualizarListas called again, with no change to the arrays since the
\* call before, renders the same lists as that call (same items, same
\* order, same indices, nothing left over from the first call); each call
\* renders exactly the two arrays.
C12_RenderIdempotente ==
    [][ /\ evento' = "atualizarListasDeNovo" => dom' = dom
        /\ evento' \in {"atualizarListas", "atualizarListasDeNovo"} =>
              dom' = Projecao(tarefasPendentes, tarefasFeitas) ]_vars

C12_Witness ==
    /\ evento = "atualizarListasDeNovo"
    /\ Len(dom.listaPendentes) = 2
    /\ Len(dom.listaFeitas) = 1
    /\ dom.listaPendentes[2].index = 1

\* C13 (as claimed): whenever a user event can be processed, that is after
\* the startup restore and after every handler has returned, a Restore that
\* hit an error part-way included, the rendered lists are the projection of
\* the two arrays: the j-th item shows the j-th record and its button
\* carries that record's index.
C13_VistaEhProjecao ==
    carregado => dom = Projecao(tarefasPendentes, tarefasFeitas)

\* C14: concluirTarefa(i) with 0 <= i < length of the pending array takes
\* exactly the record at position i out of it, keeps the other pending
\* records in order, sets that record's feita to true and appends it at
\* the end of the completed array, whose earlier records stay in place;
\* the number of records in the two arrays together is unchanged.
C14_ConcluirIndiceValido ==
    [][ (evento' = "concluirTarefa" /\ indice' >= 0
            /\ indice' < Len(tarefasPendentes))
            => /\ tarefasPendentes' = SemPosicao(tarefasPendentes, indice')
               /\ tarefasFeitas' =
                    Append(tarefasFeitas,
                           [tarefasPendentes[indice' + 1] EXCEPT !.feita = TRUE])
               /\ Len(tarefasPendentes') + Len(tarefasFeitas')
                    = Len(tarefasPendentes) + Len(tarefasFeitas) ]_vars

\* The middle one of three pending tasks was completed.
C14_Witness ==
    /\ evento = "concluirTarefa"
    /\ indice = 1
    /\ Len(tarefasPendentes) = 2
    /\ tarefasPendentes[1].id = 1
    /\ tarefasPendentes[2].id = 3
    /\ Len(tarefasFeitas) = 1
    /\ tarefasFeitas[1].id = 2

\* C15: the Delete handler's excluirFeita(i) with 0 <= i < length of the
\* completed array takes exactly the record at position i out of it, keeps
\* the other completed records in order and leaves the pending array
\* alone; once the save is accepted both entries hold the arrays, so from
\* one completed and no pending record both arrays and both persisted
\* sequences end empty.
C15_ExcluirIndiceValido ==
    [][ (evento' = "excluir" /\ indice' >= 0 /\ indice' < Len(tarefasFeitas))
            => /\ tarefasFeitas' = SemPosicao(tarefasFeitas, indice')
               /\ tarefasPendentes' = tarefasPendentes
               /\ gravacao' = "ok" =>
                    /\ Persistido(localStorage'.pendentes, tarefasPendentes')
                    /\ Persistido(localStorage'.feitas, tarefasFeitas')
               /\ (gravacao' = "ok" /\ tarefasPendentes = <<>>
                     /\ Len(tarefasFeitas) = 1) =>
                    /\ tarefasPendentes' = <<>>
                    /\ tarefasFeitas' = <<>>
                    /\ localStorage'.pendentes = Entrada(<<LBracket, RBracket>>)
                    /\ localStorage'.feitas = Entrada(<<LBracket, RBracket>>) ]_vars

\* The only record, completed, was deleted and the save accepted.
C15_Witness ==
    /\ evento = "excluir"
    /\ gravacao = "ok"
    /\ proximoId = 2
    /\ dom = Projecao(<<>>, <<>>)
    /\ tarefasPendentes = <<>>
    /\ tarefasFeitas = <<>>
    /\ localStorage.pendentes = Entrada(<<LBracket, RBracket>>)
    /\ localStorage.feitas = Entrada(<<LBracket, RBracket>>)

\* C16: when both entries hold well-formed serialized sequences,
\* recuperarDados leaves the pending array equal to the persisted pending
\* sequence and the completed array equal to the persisted completed
\* sequence, in the persisted order, with no earlier in-memory record
\* kept, whatever the arrays held before.
C16_RestoreSobrescreve ==
    [][ (Recuperou /\ EhArray(localStorage.pendentes) /\ EhArray(localStorage.feitas))
            => /\ Persistido(localStorage.pendentes, tarefasPendentes')
               /\ Persistido(localStorage.feitas, tarefasFeitas')
               /\ UNCHANGED localStorage
               /\ erro' = "nenhum" ]_vars

\* A Restore that left exactly the stored records in memory, a third
\* record having been created and being in neither array.
C16_Witness ==
    /\ evento = "recuperarBtn"
    /\ erro = "nenhum"
    /\ EhArray(localStorage.pendentes)
    /\ EhArray(localStorage.feitas)
    /\ Persistido(localStorage.pendentes, tarefasPendentes)
    /\ Persistido(localStorage.feitas, tarefasFeitas)
    /\ Ids(tarefasPendentes) = {1}
    /\ Ids(tarefasFeitas) = {2}
    /\ proximoId > MaxTarefas

\* C17: after limparStorage both arrays are empty and both lists are
\* rendered empty, also when a removeItem throws (the error is logged and
\* does not leave the function); when the removal succeeds both keys are
\* absent, and a Restore that follows yields two empty arrays.
C17_LimparTudo ==
    [][ /\ evento' = "limparBtn" =>
              /\ tarefasPendentes' = <<>>
              /\ tarefasFeitas' = <<>>
              /\ dom' = Projecao(<<>>, <<>>)
              /\ erro' \in {"nenhum", "registrado"}
              /\ erro' = "nenhum" =>
                    /\ ~localStorage'.pendentes.present
                    /\ ~localStorage'.feitas.present
        /\ (evento = "limparBtn" /\ erro = "nenhum" /\ evento' = "recuperarBtn") =>
              /\ tarefasPendentes' = <<>>
              /\ tarefasFeitas' = <<>>
              /\ dom' = Projecao(<<>>, <<>>) ]_vars

\* Clear storage whose second removeItem threw: "feitas" is still stored,
\* the arrays and the lists are empty.
C17_Witness ==
    /\ evento = "limparBtn"
    /\ erro = "registrado"
    /\ ~localStorage.pendentes.present
    /\ EhArray(localStorage.feitas)
    /\ ~Persistido(localStorage.feitas, <<>>)
    /\ tarefasPendentes = <<>>
    /\ tarefasFeitas = <<>>
    /\ dom = Projecao(<<>>, <<>>)

\* What an entry holds as a sequence of records: nothing for an absent key.
Guardado(item) == OrEmptyArray(JSONparse(item).val).items

\* C18: on a medium that starts empty and that only this page writes, in
\* every reachable state (also after a gravarDados whose first write was
\* accepted and whose second was rejected) each entry is absent or holds a
\* serialized sequence, no record is in both persisted sequences, every
\* record of the persisted pending sequence has feita = false and every
\* record of the persisted completed sequence has feita = true; and the
\* arrays in memory keep the same membership/feita invariant, after a
\* Restore too.
C18_SnapshotBemFormado ==
    /\ \A item \in {localStorage.pendentes, localStorage.feitas} :
          ~item.present \/ EhArray(item)
    /\ Ids(Guardado(localStorage.pendentes)) \cap Ids(Guardado(localStorage.feitas)) = {}
    /\ \A j \in 1..Len(Guardado(localStorage.pendentes)) :
          Guardado(localStorage.pendentes)[j].feita = FALSE
    /\ \A j \in 1..Len(Guardado(localStorage.feitas)) :
          Guardado(localStorage.feitas)[j].feita = TRUE
    /\ Ids(tarefasPendentes) \cap Ids(tarefasFeitas) = {}
    /\ \A j \in 1..Len(tarefasPendentes) : tarefasPendentes[j].feita = FALSE
    /\ \A j \in 1..Len(tarefasFeitas) : tarefasFeitas[j].feita = TRUE

\* A snapshot whose two halves come from different saves: the Complete
\* handler's gravarDados wrote "pendentes" and was rejected on "feitas",
\* which still holds the sequence of an earlier save.
C18_Witness ==
    /\ evento = "concluir"
    /\ gravacao = "falhou2"
    /\ Persistido(localStorage.pendentes, tarefasPendentes)
    /\ EhArray(localStorage.feitas)
    /\ Len(Guardado(localStorage.feitas)) = 1
    /\ Len(tarefasFeitas) = 2
    /\ Len(tarefasPendentes) = 1

\* C19: when parsing either entry fails, recuperarDados changes nothing:
\* the two arrays, the rendered lists and both entries are what they were
\* before the call.
C19_ParseFalhaNadaMuda ==
    [][ (Recuperou /\ (Malformado(localStorage.pendentes) \/ Malformado(localStorage.feitas)))
            => UNCHANGED << tarefasPendentes, tarefasFeitas, dom, localStorage >> ]_vars

\* "pendentes" parses, "feitas" does not; Restore left the task in place.
C19_Witness ==
    /\ evento = "recuperarBtn"
    /\ erro = "registrado"
    /\ EhArray(localStorage.pendentes)
    /\ Malformado(localStorage.feitas)
    /\ Len(tarefasFeitas) >= 1
    /\ ~Persistido(localStorage.pendentes, tarefasPendentes)
    /\ dom = Projecao(tarefasPendentes, tarefasFeitas)

====
